---- MODULE Spec2Model ----
(***************************************************************************)
(* Blocklist compiler, scheduler and startup code of georlist.            *)
(*                                                                         *)
(* Text is modelled as sequences of one-character strings.  "\n" is the    *)
(* line feed, "\t" the tab, "\r" the carriage return and "U+00E9" the      *)
(* single character e-acute (one UTF-16 code unit, two UTF-8 bytes).       *)
(***************************************************************************)
EXTENDS Integers, Sequences, FiniteSets, Bags, TLC

(***************************************************************************)
(* Bounds of the model.                                                    *)
(***************************************************************************)
\* source fetches that the compilations in progress may issue in total: a
\* compilation is started only while (runs in progress + 1) * sources fits
MaxSlots == 4
\* failures of fs.writeFileSync injected in one behaviour
MaxIoFaults == 1

(***************************************************************************)
(* Program constants.                                                      *)
(***************************************************************************)
\* src/unnamed/part_004:97
MAX_FAILURES == 3
\* src/compile.ts:327   if (processedRules.length < 100)
MIN_RULES == 100
\* src/compile.ts:351   if (outputContent.length < 1000)
MIN_OUTPUT_LENGTH == 1000

(***************************************************************************)
(* Strings.                                                                *)
(***************************************************************************)
NL == "\n"
EAcute == "U+00E9"
WhiteSpace == {" ", "\t", "\r", "\n"}
NonAscii == {EAcute}

\* String.prototype.length counts UTF-16 code units: one per character here.
Length(s) == Len(s)

\* fs.statSync(path).size of a file written with encoding utf-8.
Utf8Size(s) == Len(s) + Cardinality({i \in 1..Len(s) : s[i] \in NonAscii})

StartsWith(s, c) == Len(s) > 0 /\ s[1] = c

Includes(s, c) == \E i \in 1..Len(s) : s[i] = c

\* String.prototype.trim
Trim(s) ==
  LET black(i) == s[i] \notin WhiteSpace
  IN IF \A i \in 1..Len(s) : ~black(i) THEN <<>>
     ELSE LET lo == CHOOSE i \in 1..Len(s) :
                      black(i) /\ \A j \in 1..(i - 1) : ~black(j)
              hi == CHOOSE i \in 1..Len(s) :
                      black(i) /\ \A j \in (i + 1)..Len(s) : ~black(j)
          IN SubSeq(s, lo, hi)

\* The members of idx between lo and hi, in ascending order.
RECURSIVE Ascending(_, _, _)
Ascending(idx, lo, hi) ==
  IF lo > hi THEN <<>>
  ELSE IF lo = hi THEN (IF lo \in idx THEN <<lo>> ELSE <<>>)
  ELSE LET mid == (lo + hi) \div 2
       IN Ascending(idx, lo, mid) \o Ascending(idx, mid + 1, hi)

\* String.prototype.split('\n')
Split(s) ==
  LET nl == Ascending({i \in 1..Len(s) : s[i] = NL}, 1, Len(s))
      start(k) == IF k = 1 THEN 1 ELSE nl[k - 1] + 1
      end(k) == IF k = Len(nl) + 1 THEN Len(s) ELSE nl[k] - 1
  IN [k \in 1..(Len(nl) + 1) |-> SubSeq(s, start(k), end(k))]

\* Array.prototype.join('\n')
RECURSIVE JoinRange(_, _, _)
JoinRange(lines, lo, hi) ==
  IF lo > hi THEN <<>>
  ELSE IF lo = hi THEN lines[lo]
  ELSE LET mid == (lo + hi) \div 2
       IN JoinRange(lines, lo, mid) \o <<NL>> \o JoinRange(lines, mid + 1, hi)

Join(lines) == JoinRange(lines, 1, Len(lines))

\* Array.prototype.filter, given the set of positions the predicate accepts:
\* the accepted elements in their original order.
AtIndices(lines, idx) ==
  LET a == Ascending(idx, 1, Len(lines))
  IN [k \in 1..Len(a) |-> lines[a[k]]]

Digit(d) == <<"0", "1", "2", "3", "4", "5", "6", "7", "8", "9">>[d + 1]

\* Number to string, as in '! Rule count: ' + n
RECURSIVE NumberToString(_)
NumberToString(n) ==
  IF n < 10 THEN <<Digit(n)>>
  ELSE NumberToString(n \div 10) \o <<Digit(n % 10)>>

IsPrefix(p, s) == Len(p) <= Len(s) /\ SubSeq(s, 1, Len(p)) = p

(***************************************************************************)
(* Configurations (config.json after JSON.parse).  An optional property    *)
(* that is absent is the empty string, which the header code treats as     *)
(* absent too (filter(Boolean)).                                           *)
(***************************************************************************)
HttpsPrefix == <<"h", "t", "t", "p", "s", ":", "/", "/">>
HttpPrefix == <<"h", "t", "t", "p", ":", "/", "/">>

Source(n, u) == [name |-> n, type |-> "hosts", source |-> u]

CfgBase ==
  [name |-> <<"G", "e", "o", "r", "l", "i", "s", "t">>,
   description |-> <<"M", "e", "r", "g", "e", "d">>,
   homepage |-> <<>>, license |-> <<>>, version |-> <<>>,
   sources |-> <<>>]

\* one source
CfgOne == [CfgBase EXCEPT !.sources = <<Source("S1", HttpsPrefix \o <<"a">>)>>]
\* two sources
CfgTwo ==
  [CfgBase EXCEPT !.sources = <<Source("S1", HttpsPrefix \o <<"a">>),
                                Source("S2", HttpsPrefix \o <<"b">>)>>]
\* three sources
CfgThree ==
  [CfgBase EXCEPT !.sources = <<Source("S1", HttpsPrefix \o <<"a">>),
                                Source("S2", HttpsPrefix \o <<"b">>),
                                Source("S3", HttpsPrefix \o <<"c">>)>>]
\* a source that is not https: rejected by the schema pattern
CfgHttp == [CfgBase EXCEPT !.sources = <<Source("S1", HttpPrefix \o <<"a">>)>>]

ConfigIds == {"one", "two", "three", "http"}

ConfigOf ==
  [c \in ConfigIds |->
     CASE c = "one" -> CfgOne
       [] c = "two" -> CfgTwo
       [] c = "three" -> CfgThree
       [] c = "http" -> CfgHttp]

SourceKeys == {"name", "type", "source"}

\* a validation that checks the shape of the sources but not their scheme
validateConfigAnyScheme(config) ==
  /\ Len(config.sources) >= 1
  /\ \A i \in 1..Len(config.sources) :
       LET src == config.sources[i]
       IN /\ DOMAIN src = SourceKeys
          /\ src.type \in {"adblock", "hosts"}

\* validateConfig: TRUE when it returns, FALSE when it throws.
validateConfig(config) ==
  /\ Len(config.sources) >= 1
  /\ \A i \in 1..Len(config.sources) :
       LET src == config.sources[i]
       IN /\ DOMAIN src = SourceKeys
          /\ src.type \in {"adblock", "hosts"}
          /\ IsPrefix(HttpsPrefix, src.source)

\* config.sources.filter(source => source.enabled !== false)
IsEnabled(src) == ~("enabled" \in DOMAIN src /\ src.enabled = FALSE)

enabledSources(config) ==
  AtIndices(config.sources,
            {i \in 1..Len(config.sources) : IsEnabled(config.sources[i])})

(***************************************************************************)
(* Remote documents (the text a source may answer with).                   *)
(***************************************************************************)
Tld == <<".", "t", "e", "s", "t">>
HostRule(i) == <<"h", Digit(i \div 10), Digit(i % 10)>> \o Tld
ShortRule(i) == <<"a", ".", Digit(i \div 10), Digit(i % 10)>>
\* e-acute99.test
UnicodeRule == <<EAcute, "9", "9">> \o Tld

\* 100 host rules after a comment line, ending with a blank line
GoodText ==
  <<"#", " ", "l", "i", "s", "t", NL>>
  \o Join([i \in 1..100 |-> HostRule(i - 1)]) \o <<NL, NL>>
\* 100 rules, the last one with a non-ASCII character
UnicodeText ==
  Join([i \in 1..99 |-> HostRule(i - 1)] \o <<UnicodeRule>>) \o <<NL>>
\* a.com, #comment, b.com
FewText ==
  <<"a", ".", "c", "o", "m", NL, "#", "c", "o", "m", "m", "e", "n", "t", NL,
    "b", ".", "c", "o", "m", NL>>
\* a.com, c.com, blank line
SecondFewText ==
  <<"a", ".", "c", "o", "m", NL, "c", ".", "c", "o", "m", NL, NL>>
\* 100 rules of 4 characters
ShortText == Join([i \in 1..100 |-> ShortRule(i - 1)]) \o <<NL>>
\* only comment and header lines
CommentText == <<"!", " ", "x", NL, "[", "A", "]", NL, "#", "y", NL>>
\* only white space
BlankText == <<" ", NL, "\t", NL>>

Docs == {"good", "unicode", "few", "few2", "short", "comment", "blank"}

RawDocument ==
  [d \in Docs |->
     CASE d = "good" -> GoodText
       [] d = "unicode" -> UnicodeText
       [] d = "few" -> FewText
       [] d = "few2" -> SecondFewText
       [] d = "short" -> ShortText
       [] d = "comment" -> CommentText
       [] d = "blank" -> BlankText]

(***************************************************************************)
(* Line splitting of one document: compile.ts 249-257.                     *)
(***************************************************************************)
normalize(content) ==
  LET contentLines == Split(content)
      trimmed == [i \in 1..Len(contentLines) |-> Trim(contentLines[i])]
  IN AtIndices(trimmed, {i \in 1..Len(trimmed) : Len(trimmed[i]) > 0})

DocLines == [d \in Docs |-> normalize(RawDocument[d])]

\* compile.ts 240-242, 259-261: the throw of one iteration, "" when none
documentError(content) ==
  IF Len(Trim(content)) = 0 THEN "EmptyResponse"
  ELSE IF Len(normalize(content)) = 0 THEN "NoValidLines"
  ELSE ""

DocError == [d \in Docs |-> documentError(RawDocument[d])]

(***************************************************************************)
(* The filter stages: compile.ts 295-321.                                  *)
(***************************************************************************)
IsRuleLine(rule) ==
  LET trimmed == Trim(rule)
  IN /\ Len(trimmed) > 0
     /\ ~StartsWith(trimmed, "#")
     /\ ~StartsWith(trimmed, "!")
     /\ ~StartsWith(trimmed, "[")

removeComments(rules) ==
  AtIndices(rules, {i \in 1..Len(rules) : IsRuleLine(rules[i])})

\* a pass that keeps every line
deduplicateKeepAll(rules) == rules

\* a pass that drops only the second occurrence of a line
deduplicateOnce(rules) ==
  AtIndices(rules,
            {i \in 1..Len(rules) :
               Cardinality({j \in 1..(i - 1) : rules[j] = rules[i]}) # 1})

\* a set that keeps the last occurrence of a line
deduplicateKeepLast(rules) ==
  AtIndices(rules,
            {i \in 1..Len(rules) :
               \A j \in (i + 1)..Len(rules) : rules[j] # rules[i]})

\* [...new Set(rules)]: insertion order, first occurrence kept
deduplicate(rules) ==
  AtIndices(rules,
            {i \in 1..Len(rules) : \A j \in 1..(i - 1) : rules[j] # rules[i]})

IsValidRule(rule) ==
  LET trimmed == Trim(rule)
  IN Includes(trimmed, ".") /\ ~Includes(trimmed, " ") /\ Len(trimmed) > 3

validateRules(rules) ==
  AtIndices(rules, {i \in 1..Len(rules) : IsValidRule(rules[i])})

(***************************************************************************)
(* Header and output text: compile.ts 335-349.                             *)
(***************************************************************************)
\* new Date().toISOString(): always 24 characters
IsoTimestamp ==
  <<"2", "0", "2", "5", "-", "0", "1", "-", "0", "1", "T", "0", "0", ":",
    "0", "0", ":", "0", "0", ".", "0", "0", "0", "Z">>

TitleLabel == <<"!", " ", "T", "i", "t", "l", "e", ":", " ">>
UpdatedLabel ==
  <<"!", " ", "L", "a", "s", "t", " ", "u", "p", "d", "a", "t", "e", "d",
    ":", " ">>
DescriptionLabel ==
  <<"!", " ", "D", "e", "s", "c", "r", "i", "p", "t", "i", "o", "n", ":", " ">>
HomepageLabel ==
  <<"!", " ", "H", "o", "m", "e", "p", "a", "g", "e", ":", " ">>
LicenseLabel == <<"!", " ", "L", "i", "c", "e", "n", "s", "e", ":", " ">>
VersionLabel == <<"!", " ", "V", "e", "r", "s", "i", "o", "n", ":", " ">>
SourceCountLabel ==
  <<"!", " ", "S", "o", "u", "r", "c", "e", " ", "c", "o", "u", "n", "t",
    ":", " ">>
RuleCountLabel ==
  <<"!", " ", "R", "u", "l", "e", " ", "c", "o", "u", "n", "t", ":", " ">>
CompilationTimeLabel ==
  <<"!", " ", "C", "o", "m", "p", "i", "l", "a", "t", "i", "o", "n", " ",
    "t", "i", "m", "e", ":", " ">>

\* a header that gives the rule count before the source count
headerLinesRuleCountFirst(config, sourceCount, ruleCount, ms) ==
  LET all ==
        <<TitleLabel \o config.name,
          UpdatedLabel \o IsoTimestamp,
          DescriptionLabel \o config.description,
          IF config.homepage # <<>> THEN HomepageLabel \o config.homepage
                                    ELSE <<>>,
          IF config.license # <<>> THEN LicenseLabel \o config.license
                                   ELSE <<>>,
          IF config.version # <<>> THEN VersionLabel \o config.version
                                   ELSE <<>>,
          RuleCountLabel \o NumberToString(ruleCount),
          SourceCountLabel \o NumberToString(sourceCount),
          CompilationTimeLabel \o NumberToString(ms) \o <<"m", "s">>,
          <<"!">> >>
  IN AtIndices(all, {i \in 1..Len(all) : all[i] # <<>>})

headerLines(config, sourceCount, ruleCount, ms) ==
  LET all ==
        <<TitleLabel \o config.name,
          UpdatedLabel \o IsoTimestamp,
          DescriptionLabel \o config.description,
          IF config.homepage # <<>> THEN HomepageLabel \o config.homepage
                                    ELSE <<>>,
          IF config.license # <<>> THEN LicenseLabel \o config.license
                                   ELSE <<>>,
          IF config.version # <<>> THEN VersionLabel \o config.version
                                   ELSE <<>>,
          SourceCountLabel \o NumberToString(sourceCount),
          RuleCountLabel \o NumberToString(ruleCount),
          CompilationTimeLabel \o NumberToString(ms) \o <<"m", "s">>,
          <<"!">> >>
  IN AtIndices(all, {i \in 1..Len(all) : all[i] # <<>>})

outputContent(config, sourceCount, processedRules, ms) ==
  Join(headerLines(config, sourceCount, Len(processedRules), ms))
  \o <<NL>> \o Join(processedRules)

(***************************************************************************)
(* The synchronous tail of compileBlocklist, from the end of the fetch     *)
(* loop to the size guard: compile.ts 282-353.  err names the throw that   *)
(* ends the run, "" when the output is handed to secureWriteFile.          *)
(***************************************************************************)
RECURSIVE Concat(_)
Concat(seqs) == IF seqs = <<>> THEN <<>> ELSE seqs[1] \o Concat(Tail(seqs))

\* an accumulator filled from the last source to the first
allRulesOfReversed(docs) ==
  Concat([i \in 1..Len(docs) |-> DocLines[docs[Len(docs) + 1 - i]]])

allRulesOf(docs) == Concat([i \in 1..Len(docs) |-> DocLines[docs[i]]])

ElapsedChoices == {1234}

\* a tail whose only guard on the rule count is the minimum
compileTailOnlyMinimum(config, sourceCount, allRules, ms) ==
  LET noComments == removeComments(allRules)
      unique == deduplicate(noComments)
      processedRules == validateRules(unique)
      text == outputContent(config, sourceCount, processedRules, ms)
      err == IF Len(processedRules) < MIN_RULES THEN "TooFewRules"
             ELSE IF Length(text) < MIN_OUTPUT_LENGTH THEN "OutputTooSmall"
             ELSE ""
  IN [err |-> err, rules |-> processedRules, text |-> text]

\* a tail without the minimum-rule guard of line 327
compileTailNoMinimum(config, sourceCount, allRules, ms) ==
  LET noComments == removeComments(allRules)
      unique == deduplicate(noComments)
      processedRules == validateRules(unique)
      text == outputContent(config, sourceCount, processedRules, ms)
      err == IF Len(allRules) = 0 THEN "NoRulesCollected"
             ELSE IF Len(noComments) = 0 THEN "NoRulesAfterComments"
             ELSE IF Len(processedRules) = 0 THEN "NoRulesAfterValidation"
             ELSE IF Length(text) < MIN_OUTPUT_LENGTH THEN "OutputTooSmall"
             ELSE ""
  IN [err |-> err, rules |-> processedRules, text |-> text]

compileTail(config, sourceCount, allRules, ms) ==
  LET noComments == removeComments(allRules)
      unique == deduplicate(noComments)
      processedRules == validateRules(unique)
      text == outputContent(config, sourceCount, processedRules, ms)
      err == IF Len(allRules) = 0 THEN "NoRulesCollected"
             ELSE IF Len(noComments) = 0 THEN "NoRulesAfterComments"
             ELSE IF Len(processedRules) = 0 THEN "NoRulesAfterValidation"
             ELSE IF Len(processedRules) < MIN_RULES THEN "TooFewRules"
             ELSE IF Length(text) < MIN_OUTPUT_LENGTH THEN "OutputTooSmall"
             ELSE ""
  IN [err |-> err, rules |-> processedRules, text |-> text]

\* documents that pass the fetch stage (a blank one is rejected there)
PassingDocs == {d \in Docs : DocError[d] = ""}

DocList == <<"good", "unicode", "few", "short", "comment">>
DocRank(d) == CHOOSE i \in 1..Len(DocList) : DocList[i] = d

\* Sequences of passing documents, numbered from 1 (a table index).
RECURSIVE DocsIndex(_)
DocsIndex(docs) ==
  IF docs = <<>> THEN 1
  ELSE DocRank(docs[1]) + Len(DocList) * (DocsIndex(Tail(docs)) - 1)

RECURSIVE DocsAt(_, _)
DocsAt(index, n) ==
  IF n = 0 THEN <<>>
  ELSE <<DocList[((index - 1) % Len(DocList)) + 1]>>
       \o DocsAt(((index - 1) \div Len(DocList)) + 1, n - 1)

RECURSIVE Power(_, _)
Power(b, n) == IF n = 0 THEN 1 ELSE b * Power(b, n - 1)

ValidConfigIds == {"one", "two", "three"}

\* compileTail for every sequence of fetched documents, computed once
TailTable ==
  [c \in ValidConfigIds |->
     LET n == Len(enabledSources(ConfigOf[c]))
     IN [i \in 1..Power(Len(DocList), n) |->
           compileTail(ConfigOf[c], n, allRulesOf(DocsAt(i, n)),
                       CHOOSE ms \in ElapsedChoices : TRUE)]]

tailOf(c, docs) == TailTable[c][DocsIndex(docs)]

(***************************************************************************)
(* Files.  A file written by compileBlocklist is named by the documents it *)
(* was compiled from; its text is TailTable's.  full is FALSE between the  *)
(* open that creates or truncates a file and the write of its data.        *)
(***************************************************************************)
NoFile == [kind |-> "none"]

\* index.ts 98-104
FallbackTitle ==
  <<"E", "m", "p", "t", "y", " ", "A", "d", "G", "u", "a", "r", "d", " ",
    "H", "o", "m", "e", " ", "B", "l", "o", "c", "k", "l", "i", "s", "t",
    " ", "(", "F", "a", "l", "l", "b", "a", "c", "k", ")">>
FallbackDescription ==
  <<"F", "a", "l", "l", "b", "a", "c", "k", " ", "e", "m", "p", "t", "y",
    " ", "b", "l", "o", "c", "k", "l", "i", "s", "t", " ", "c", "r", "e",
    "a", "t", "e", "d", " ", "d", "u", "e", " ", "t", "o", " ", "c", "o",
    "m", "p", "i", "l", "a", "t", "i", "o", "n", " ", "e", "r", "r", "o",
    "r">>
FallbackNote ==
  <<"!", " ", "T", "h", "i", "s", " ", "f", "i", "l", "e", " ", "w", "a",
    "s", " ", "a", "u", "t", "o", "m", "a", "t", "i", "c", "a", "l", "l",
    "y", " ", "c", "r", "e", "a", "t", "e", "d", " ", "a", "s", " ", "a",
    " ", "f", "a", "l", "l", "b", "a", "c", "k", " ", "b", "e", "c", "a",
    "u", "s", "e", " ", "c", "o", "m", "p", "i", "l", "a", "t", "i", "o",
    "n", " ", "f", "a", "i", "l", "e", "d", ".">>

FallbackText ==
  Join(<<TitleLabel \o FallbackTitle,
         UpdatedLabel \o IsoTimestamp,
         DescriptionLabel \o FallbackDescription,
         FallbackNote,
         <<"!">> >>)

CompiledFile(docs, ms, full) ==
  [kind |-> "compiled", docs |-> docs, ms |-> ms, full |-> full]
FallbackFile(full) == [kind |-> "fallback", full |-> full]

(***************************************************************************)
(* State.                                                                  *)
(***************************************************************************)
VARIABLES
  entry,       \* the script run: "main" (index.ts), "cron", "server"
  configId,    \* the configuration in config.json
  cronValid,   \* cron.validate(CRON_SCHEDULE)
  pc,          \* position of the entry script
  published,   \* the file adguard-blocklist.txt, or NoFile
  temps,       \* the *.tmp files beside it: name -> file
  runs,        \* compilations suspended on the network (a bag of records)
  publishing,  \* the compilation inside secureWriteFile and the checks
               \* that follow it, or None
  consecutiveFailures,
  initialTimer, \* the setTimeout of startScheduler: "none", "pending", "fired"
  job,          \* the cron job is scheduled
  ioFaults,     \* injected write failures so far
  everMax,      \* consecutiveFailures has reached MAX_FAILURES
  ticked,       \* a cron tick has run
  failedSinceSuccess, \* scheduler compilations failed since the last success
  ipRequestCounts, \* the rate limiter's map: client IP -> count, resetTime
  uncleaned,    \* that map as it would be had the clean-up never run
  now,          \* Date.now(), in milliseconds since the process started
  event         \* what the last step did (reset by every step)

vars ==
  <<entry, configId, cronValid, pc, published, temps, runs, publishing,
    consecutiveFailures, initialTimer, job, ioFaults, everMax, ticked,
    failedSinceSuccess, ipRequestCounts, uncleaned, now, event>>

\* the state of the rate limiter of server.ts and its clock
limiter == <<ipRequestCounts, uncleaned, now>>

None == [kind |-> "none"]

config == ConfigOf[configId]

\* an artifact published by an earlier process
OldFile == [kind |-> "old", full |-> TRUE]
OldText == tailOf("one", <<"good">>).text

\* text of a file as a reader of the path gets it
Content(file) ==
  IF ~file.full THEN <<>>
  ELSE IF file.kind = "fallback" THEN FallbackText
  ELSE IF file.kind = "old" THEN OldText
  ELSE tailOf(configId, file.docs).text

\* the enabled sources of every configuration, computed once
SourcesOf == [c \in ConfigIds |-> enabledSources(ConfigOf[c])]

Exists(file) == file # NoFile


SchedulerStarters == {"initial", "tick"}

Init ==
  /\ entry \in {"main", "cron", "server"}
  /\ configId \in ConfigIds
  /\ cronValid \in BOOLEAN
  /\ pc = "boot"
  /\ published \in {NoFile, OldFile}
  /\ temps = <<>>
  /\ runs = EmptyBag
  /\ publishing = None
  /\ consecutiveFailures = 0
  /\ initialTimer = "none"
  /\ job = FALSE
  /\ ioFaults = 0
  /\ everMax = FALSE
  /\ ticked = FALSE
  /\ failedSinceSuccess = 0
  /\ ipRequestCounts = <<>>
  /\ uncleaned = <<>>
  /\ now = 0
  /\ event = [kind |-> "none", failuresBefore |-> 0, maxBefore |-> FALSE,
              called |-> FALSE, settled |-> None]

\* The event loop is free to run a callback: the entry script is suspended
\* or finished, and no compilation is inside its synchronous publish block.
Idle ==
  /\ pc \in {"await_compile", "await_server_compile", "serving", "scheduling"}
  /\ publishing = None

\* bound of the model, not of the program
CanStart ==
  (BagCardinality(runs) + 1) * Len(SourcesOf[configId]) <= MaxSlots

(***************************************************************************)
(* How a compilation's promise is consumed by whoever started it.          *)
(***************************************************************************)
\* part_004 136, 166
onSuccess(failures) == 0
\* a catch handler that logs the failure and leaves the counter alone
onFailureLogOnly(failures) == failures
\* part_004 139, 169
onFailure(failures) == failures + 1

\* State after the continuation that consumes the settled promise.
AfterSettle(starter, ok) ==
  LET scheduled == starter \in SchedulerStarters
      failures == IF ~scheduled THEN consecutiveFailures
                  ELSE IF ok THEN onSuccess(consecutiveFailures)
                  ELSE onFailure(consecutiveFailures)
  IN [pc |-> CASE starter = "main_first" ->
                    \* index.ts 90-108
                    IF ok THEN "start_scheduler" ELSE "fallback"
               [] starter = "main_refresh" ->
                    \* index.ts 119, 135-138
                    IF ok THEN "start_scheduler" ELSE "exited"
               [] starter = "server" ->
                    \* server.ts 63, 166-169; index.ts 130, 135-138
                    IF ok THEN "serving" ELSE "exited"
               [] OTHER -> pc,
      failures |-> failures,
      failed |-> IF ~scheduled THEN failedSinceSuccess
                 ELSE IF ok THEN 0 ELSE failedSinceSuccess + 1,
      max |-> everMax \/ failures >= MAX_FAILURES]

ApplySettle(starter, ok) ==
  LET after == AfterSettle(starter, ok)
  IN /\ pc' = after.pc
     /\ consecutiveFailures' = after.failures
     /\ failedSinceSuccess' = after.failed
     /\ everMax' = after.max

Ev(kind) ==
  [kind |-> kind, failuresBefore |-> consecutiveFailures,
   maxBefore |-> everMax, called |-> FALSE, settled |-> None]

Settled(starter, ok, err, requested, renamed) ==
  [kind |-> "settled", starter |-> starter, ok |-> ok, err |-> err,
   requested |-> requested, renamed |-> renamed]

SourceError(pos, cause) ==
  [kind |-> "source", pos |-> pos, total |-> Len(SourcesOf[configId]),
   name |-> SourcesOf[configId][pos].name, cause |-> cause]
OtherError(cause) == [kind |-> cause]
\* a throw of compile.ts 284-353, with the number of rules it counted
TailError(tail) == [kind |-> tail.err, rules |-> Len(tail.rules)]

\* compileBlocklist up to its first await: compile.ts 187-231
NewRun(starter) ==
  [starter |-> starter, pos |-> 1, phase |-> "headers", docs |-> <<>>,
   requested |-> <<1>>]

\* "" when the compilation suspends on its first fetch
startError ==
  IF ~validateConfig(config) THEN "InvalidConfig"
  ELSE IF Len(SourcesOf[configId]) = 0 THEN "NoRulesCollected"
  ELSE ""

\* Call compileBlocklist() for starter; awaiting is the caller's position
\* while the promise is pending.
Launch(starter, awaiting, ev) ==
  IF startError = ""
  THEN /\ runs' = runs (+) SetToBag({NewRun(starter)})
       /\ pc' = awaiting
       /\ UNCHANGED <<consecutiveFailures, failedSinceSuccess, everMax>>
       /\ event' = [ev EXCEPT !.called = TRUE]
  ELSE /\ runs' = runs
       /\ ApplySettle(starter, FALSE)
       /\ event' = [ev EXCEPT !.called = TRUE,
                              !.settled = Settled(starter, FALSE,
                                                  OtherError(startError),
                                                  <<>>, FALSE)]

(***************************************************************************)
(* index.ts main, up to its first await.                                   *)
(***************************************************************************)
\* an existing artifact is recompiled when it is older than or as old as the
\* interval
isOutdatedInclusive(fileAge, updateInterval) ==
  fileAge >= (IF updateInterval # 0 THEN updateInterval ELSE 86400)

\* index.ts 110-117: fileAge in seconds; updateInterval is
\* config.updateInterval, 0 when config.json does not give it
isOutdated(fileAge, updateInterval) ==
  fileAge > (IF updateInterval # 0 THEN updateInterval ELSE 86400)

MainStart ==
  /\ pc = "boot" /\ entry = "main"
  /\ IF ~Exists(published)
     THEN Launch("main_first", "await_compile", Ev("main"))
     ELSE \E fileAge \in {60, 61, 86400, 86401} :
          \E updateInterval \in {0, 60, 86400} :
            LET ev == Ev("main") @@ [fileAge |-> fileAge,
                                     updateInterval |-> updateInterval]
            IN IF isOutdated(fileAge, updateInterval)
               THEN Launch("main_refresh", "await_compile", ev)
               ELSE /\ pc' = "start_scheduler"
                    /\ event' = ev
                    /\ UNCHANGED <<runs, consecutiveFailures,
                                   failedSinceSuccess, everMax>>
  /\ UNCHANGED <<limiter, entry, configId, cronValid, published, temps, publishing,
                 initialTimer, job, ioFaults, ticked>>

\* index.ts 106: fs.writeFileSync(outputPath, header) opens the path ...
FallbackOpen ==
  /\ pc = "fallback"
  /\ published' = FallbackFile(FALSE)
  /\ pc' = "fallback_write"
  /\ event' = Ev("fallback_open")
  /\ UNCHANGED <<limiter, entry, configId, cronValid, temps, runs, publishing,
                 consecutiveFailures, initialTimer, job, ioFaults, everMax,
                 ticked, failedSinceSuccess>>

\* ... and then writes the header into it
FallbackWrite ==
  /\ pc = "fallback_write"
  /\ published' = FallbackFile(TRUE)
  /\ pc' = "start_scheduler"
  /\ event' = Ev("fallback_write")
  /\ UNCHANGED <<limiter, entry, configId, cronValid, temps, runs, publishing,
                 consecutiveFailures, initialTimer, job, ioFaults, everMax,
                 ticked, failedSinceSuccess>>

(***************************************************************************)
(* startScheduler: part_004 107-180.                                       *)
(***************************************************************************)
\* a scheduler that arms the timer and the job before validating
startSchedulerLateValidate(valid, exists) ==
  [throws |-> ~valid,
   timer |-> IF exists THEN "none" ELSE "pending",
   job |-> TRUE]

startScheduler(valid, exists) ==
  IF ~valid THEN [throws |-> TRUE, timer |-> "none", job |-> FALSE]
  ELSE [throws |-> FALSE,
        timer |-> IF exists THEN "none" ELSE "pending",
        job |-> TRUE]

StartScheduler ==
  /\ pc = "start_scheduler" \/ (pc = "boot" /\ entry = "cron")
  /\ LET r == startScheduler(cronValid, Exists(published))
     IN /\ initialTimer' = r.timer
        /\ job' = r.job
        /\ pc' = IF r.throws THEN "exited"
                 ELSE IF entry = "main" THEN "start_server"
                 ELSE "scheduling"
        /\ event' = [Ev("start_scheduler") EXCEPT !.called = ~r.throws]
  /\ UNCHANGED <<limiter, entry, configId, cronValid, published, temps, runs,
                 publishing, consecutiveFailures, ioFaults, everMax, ticked,
                 failedSinceSuccess>>

\* setTimeout callback: part_004 133-141
InitialCompile ==
  /\ initialTimer = "pending" /\ Idle /\ CanStart
  /\ initialTimer' = "fired"
  /\ Launch("initial", pc, Ev("timer"))
  /\ UNCHANGED <<limiter, entry, configId, cronValid, published, temps, publishing,
                 job, ioFaults, ticked>>

\* part_004 153-164
tickDecision(failures) ==
  IF failures >= MAX_FAILURES THEN "skip_max"
  ELSE IF failures > 0 THEN "skip_backoff"
  ELSE "compile"

\* cron callback: part_004 145-175
Tick ==
  /\ job /\ Idle
  /\ ticked' = TRUE
  /\ IF tickDecision(consecutiveFailures) = "compile"
     THEN CanStart /\ Launch("tick", pc, Ev("tick"))
     ELSE /\ event' = Ev("tick")
          /\ UNCHANGED <<runs, pc, consecutiveFailures, failedSinceSuccess,
                         everMax>>
  /\ UNCHANGED <<limiter, entry, configId, cronValid, published, temps, publishing,
                 initialTimer, job, ioFaults>>

(***************************************************************************)
(* startServer up to the creation of the server: server.ts 57-69.          *)
(***************************************************************************)
StartServer ==
  /\ pc = "start_server" \/ (pc = "boot" /\ entry = "server")
  /\ IF Exists(published)
     THEN /\ pc' = "serving"
          /\ event' = Ev("start_server")
          /\ UNCHANGED <<runs, consecutiveFailures, failedSinceSuccess,
                         everMax>>
     ELSE Launch("server", "await_server_compile", Ev("start_server"))
  /\ UNCHANGED <<limiter, entry, configId, cronValid, published, temps, publishing,
                 initialTimer, job, ioFaults, ticked>>

(***************************************************************************)
(* A compilation resumes from the network: compile.ts 148-182, 224-280.    *)
(***************************************************************************)
HeaderOutcomes == {"ok", "timeout", "status", "contentType"}
\* the bodies a source answers with, or a connection reset while reading
FetchedDocs == {"good", "unicode", "few", "blank"}
BodyOutcomes == FetchedDocs \cup {"reset"}

Replace(r, q) == (runs (-) SetToBag({r})) (+) SetToBag({q})
Remove(r) == runs (-) SetToBag({r})

\* a fetch loop that logs the failure of a source and goes on to the next
afterSourceFailureSkip(r) ==
  IF r.pos < Len(SourcesOf[configId])
  THEN [r EXCEPT !.pos = r.pos + 1, !.phase = "headers",
                 !.requested = Append(r.requested, r.pos + 1)]
  ELSE None

\* The catch of the fetch loop: compile.ts 274-279.  Returns the run as it
\* continues, or None when the error is rethrown and the run ends.
afterSourceFailure(r) == None

SourceFails(r, cause, kind) ==
  LET next == afterSourceFailure(r)
  IN IF next = None
     THEN /\ runs' = Remove(r)
          /\ ApplySettle(r.starter, FALSE)
          /\ event' = [Ev(kind) EXCEPT
                         !.settled = Settled(r.starter, FALSE,
                                             SourceError(r.pos, cause),
                                             r.requested, FALSE)]
     ELSE /\ runs' = Replace(r, next)
          /\ event' = Ev(kind)
          /\ UNCHANGED <<pc, consecutiveFailures, failedSinceSuccess,
                         everMax>>

\* await fetchWithTimeout(source.source) settles
RunHeaders ==
  /\ Idle
  /\ \E r \in BagToSet(runs) : \E o \in HeaderOutcomes :
       /\ r.phase = "headers"
       /\ IF o = "ok"
          THEN /\ runs' = Replace(r, [r EXCEPT !.phase = "body"])
               /\ event' = Ev("headers")
               /\ UNCHANGED <<pc, consecutiveFailures, failedSinceSuccess,
                              everMax>>
          ELSE SourceFails(r, o, "headers")
  /\ UNCHANGED <<limiter, entry, configId, cronValid, published, temps, publishing,
                 initialTimer, job, ioFaults, ticked>>

\* `${securedPath}.${crypto.randomBytes(8).toString('hex')}.tmp`: a name no
\* file has (flag 'wx' makes a clash a write error)
tempFileName(existing) ==
  CHOOSE k \in 1..(Cardinality(existing) + 1) : k \notin existing

\* await response.text() settles; the rest of the iteration and, after the
\* last source, everything up to the open of the temporary file follow
\* without suspension.
RunBody ==
  /\ Idle
  /\ \E r \in BagToSet(runs) : \E o \in BodyOutcomes :
       /\ r.phase = "body"
       /\ IF o = "reset"
          THEN /\ SourceFails(r, "reset", "body")
               /\ UNCHANGED <<temps, publishing>>
          ELSE IF DocError[o] # ""
          THEN /\ SourceFails(r, DocError[o], "body")
               /\ UNCHANGED <<temps, publishing>>
          ELSE IF r.pos < Len(SourcesOf[configId])
          THEN /\ runs' = Replace(r, [r EXCEPT
                                        !.pos = r.pos + 1,
                                        !.phase = "headers",
                                        !.docs = Append(r.docs, o),
                                        !.requested =
                                           Append(r.requested, r.pos + 1)])
               /\ event' = Ev("body")
               /\ UNCHANGED <<pc, consecutiveFailures, failedSinceSuccess,
                              everMax, temps, publishing>>
          ELSE LET docs == Append(r.docs, o)
                   tail == tailOf(configId, docs)
                   name == tempFileName(DOMAIN temps)
               IN IF tail.err # ""
                  THEN /\ runs' = Remove(r)
                       /\ ApplySettle(r.starter, FALSE)
                       /\ event' = [Ev("body") EXCEPT
                                      !.settled =
                                         Settled(r.starter, FALSE,
                                                 TailError(tail),
                                                 r.requested, FALSE)]
                       /\ UNCHANGED <<temps, publishing>>
                  ELSE \E ms \in ElapsedChoices :
                       /\ runs' = Remove(r)
                       /\ temps' = [n \in DOMAIN temps \cup {name} |->
                                      IF n = name
                                      THEN CompiledFile(docs, ms, FALSE)
                                      ELSE temps[n]]
                       /\ publishing' =
                            [kind |-> "run", starter |-> r.starter,
                             docs |-> docs, ms |-> ms, temp |-> name,
                             step |-> "opened", requested |-> r.requested,
                             renamed |-> FALSE]
                       /\ event' = Ev("body")
                       /\ UNCHANGED <<pc, consecutiveFailures,
                                      failedSinceSuccess, everMax>>
  /\ UNCHANGED <<limiter, entry, configId, cronValid, published, initialTimer, job,
                 ioFaults, ticked>>

(***************************************************************************)
(* secureWriteFile and the checks after it: compile.ts 132-143, 357-373.   *)
(* The block is synchronous: no callback of this process runs inside it,   *)
(* but other processes see the files between its system calls.             *)
(***************************************************************************)
EndPublishing(ok, err, kind) ==
  /\ publishing' = None
  /\ ApplySettle(publishing.starter, ok)
  /\ event' = [Ev(kind) EXCEPT
                 !.settled = Settled(publishing.starter, ok, err,
                                     publishing.requested,
                                     publishing.renamed)]

\* fs.writeFileSync(tempFileName, data, {flag: 'wx'}) after its open: the
\* data is written, or the write fails and the exception ends the run
PublishWrite ==
  /\ publishing # None /\ publishing.step = "opened"
  /\ \/ /\ temps' = [temps EXCEPT ![publishing.temp].full = TRUE]
        /\ publishing' = [publishing EXCEPT !.step = "written"]
        /\ event' = Ev("write")
        /\ UNCHANGED <<pc, consecutiveFailures, failedSinceSuccess, everMax,
                       ioFaults>>
     \/ /\ ioFaults < MaxIoFaults
        /\ ioFaults' = ioFaults + 1
        /\ EndPublishing(FALSE, OtherError("WriteFailure"), "write")
        /\ UNCHANGED temps
  /\ UNCHANGED <<limiter, entry, configId, cronValid, published, runs, initialTimer,
                 job, ticked>>

\* a write that removes the file at the published path before it renames
\* the temporary file onto it
PublishUnlinkThenRename ==
  /\ publishing # None /\ publishing.step = "written"
  /\ IF Exists(published)
     THEN /\ published' = NoFile
          /\ UNCHANGED <<temps, publishing>>
     ELSE /\ published' = temps[publishing.temp]
          /\ temps' = [n \in DOMAIN temps \ {publishing.temp} |-> temps[n]]
          /\ publishing' = [publishing EXCEPT !.step = "renamed",
                                              !.renamed = TRUE]
  /\ event' = Ev("rename")
  /\ UNCHANGED <<limiter, entry, configId, cronValid, pc, runs, consecutiveFailures,
                 initialTimer, job, ioFaults, everMax, ticked,
                 failedSinceSuccess>>

\* fs.renameSync(tempFileName, securedPath)
PublishRename ==
  /\ publishing # None /\ publishing.step = "written"
  /\ published' = temps[publishing.temp]
  /\ temps' = [n \in DOMAIN temps \ {publishing.temp} |-> temps[n]]
  /\ publishing' = [publishing EXCEPT !.step = "renamed", !.renamed = TRUE]
  /\ event' = Ev("rename")
  /\ UNCHANGED <<limiter, entry, configId, cronValid, pc, runs, consecutiveFailures,
                 initialTimer, job, ioFaults, everMax, ticked,
                 failedSinceSuccess>>

\* compile.ts 360-367: "" when both checks pass
postWriteError(file, text) ==
  IF ~Exists(file) THEN "NotCreated"
  ELSE IF Utf8Size(Content(file)) # Length(text) THEN "SizeMismatch"
  ELSE ""

PublishCheck ==
  /\ publishing # None /\ publishing.step = "renamed"
  /\ LET err == postWriteError(published,
                               tailOf(configId, publishing.docs).text)
     IN EndPublishing(err = "", OtherError(err), "check")
  /\ UNCHANGED <<limiter, entry, configId, cronValid, published, temps, runs,
                 initialTimer, job, ioFaults, ticked>>

Next ==
  \/ MainStart
  \/ FallbackOpen
  \/ FallbackWrite
  \/ StartScheduler
  \/ InitialCompile
  \/ Tick
  \/ StartServer
  \/ RunHeaders
  \/ RunBody
  \/ PublishWrite
  \/ PublishRename
  \/ PublishCheck

Spec == Init /\ [][Next]_vars

TypeOK ==
  /\ pc \in {"boot", "await_compile", "fallback", "fallback_write",
             "start_scheduler", "start_server", "await_server_compile",
             "serving", "scheduling", "exited"}
  /\ consecutiveFailures \in 0..(MaxSlots + 1)
  /\ initialTimer \in {"none", "pending", "fired"}

(***************************************************************************)
(* Properties.                                                             *)
(***************************************************************************)
\* a compilation has just rejected
Rejected == event.settled # None /\ ~event.settled.ok

\* compilations started by the scheduler that have not settled
SchedulerRunsInProgress ==
  LET mine == {r \in BagToSet(runs) : r.starter \in SchedulerStarters}
  IN BagCardinality([r \in mine |-> CopiesIn(r, runs)])
     + (IF publishing # None /\ publishing.starter \in SchedulerStarters
        THEN 1 ELSE 0)

\* C1: a run of compileBlocklist that rejects, at whatever stage, has not
\* replaced the file at the published path.
C1_FailedRunLeavesArtifact == Rejected => ~event.settled.renamed

\* C2: at most one compilation started by the scheduler (the initial one and
\* those of the ticks) is in progress.
C2_SingleFlight == SchedulerRunsInProgress <= 1

\* C3: sources are requested one at a time in declared order; when the source
\* at position i fails no later source is requested, the run rejects with an
\* error naming position i and that source's name, and the run has not
\* replaced the published file.
C3_FailFastInOrder ==
  /\ \A r \in BagToSet(runs) :
       /\ r.requested = [k \in 1..r.pos |-> k]
       /\ Len(r.docs) = r.pos - 1
  /\ (Rejected /\ event.settled.err.kind = "source") =>
       LET e == event.settled.err
       IN /\ event.settled.requested = [k \in 1..e.pos |-> k]
          /\ e.total = Len(SourcesOf[configId])
          /\ e.name = SourcesOf[configId][e.pos].name
          /\ ~event.settled.renamed

\* the second of three sources has failed: the third was never requested
C3_Witness ==
  /\ Rejected /\ event.settled.err.kind = "source"
  /\ event.settled.err.pos = 2 /\ event.settled.err.total = 3
  /\ event.settled.requested = <<1, 2>>

\* C4: a reader of the published path finds, at any moment, one complete
\* artifact: never a file whose data is not written yet.
C4_ReaderSeesCompleteArtifact == Exists(published) => published.full

\* C5: every change of the file at the published path is the rename of a
\* fully written temporary file onto it.
C5_OnlyRenamePublishes ==
  [][published' # published =>
       /\ publishing # None /\ publishing.step = "written"
       /\ publishing.temp \in DOMAIN temps
       /\ temps[publishing.temp].full
       /\ published' = temps[publishing.temp]
       /\ publishing.temp \notin DOMAIN temps']_vars

\* C6: once consecutiveFailures has reached MAX_FAILURES, every later tick
\* returns without calling compileBlocklist and without changing the
\* counter.
C6_HaltedForGood ==
  (event.kind = "tick" /\ event.maxBefore) =>
    (~event.called /\ consecutiveFailures = event.failuresBefore)

\* C7: consecutiveFailures is the number of scheduler-started compilations
\* that failed since the last one that succeeded.
C7_CounterCountsFailures == consecutiveFailures = failedSinceSuccess

\* two scheduler-started compilations have failed in a row
C7_Witness ==
  /\ Rejected /\ event.settled.starter \in SchedulerStarters
  /\ consecutiveFailures = 2

\* C8: a tick that fires while consecutiveFailures is below MAX_FAILURES
\* calls compileBlocklist.
C8_TickBelowMaxCompiles ==
  (event.kind = "tick" /\ event.failuresBefore < MAX_FAILURES) => event.called

\* C9: startScheduler with a malformed expression throws at the call,
\* schedules no job and starts no compilation, now or later; with a
\* well-formed one it returns with the job scheduled.
C9_EagerValidation ==
  /\ ~cronValid =>
       /\ ~job /\ initialTimer = "none" /\ ~ticked
       /\ SchedulerRunsInProgress = 0
       /\ event.kind = "start_scheduler" => (~event.called /\ pc = "exited")
  /\ (cronValid /\ event.kind = "start_scheduler") =>
       (event.called /\ job /\ pc # "exited")

\* startScheduler has just thrown on a malformed expression
C9_Witness ==
  ~cronValid /\ event.kind = "start_scheduler" /\ pc = "exited"

\* C10: startScheduler arms the out-of-band compilation exactly when no
\* artifact exists, and that compilation starts before the first tick runs.
C10_InitialBeforeFirstTick ==
  /\ event.kind = "start_scheduler" /\ event.called =>
       (initialTimer = "pending" <=> ~Exists(published))
  /\ initialTimer = "pending" => ~ticked

\* rules in the body of a file written by compileBlocklist
CompiledRules(file) == tailOf(configId, file.docs).rules

\* C11: a run that is left with fewer than MIN_RULES rules after the filter
\* stages rejects (with the too-few-rules error when any rule is left) and
\* has not replaced the published file; only runs with at least MIN_RULES
\* rules reach the write, a temporary file or the published path.
C11_MinimumRuleGuard ==
  /\ (event.settled # None /\ "rules" \in DOMAIN event.settled.err
      /\ event.settled.err.rules < MIN_RULES) =>
       /\ Rejected /\ ~event.settled.renamed
       /\ event.settled.err.rules > 0 => event.settled.err.kind = "TooFewRules"
  /\ publishing # None =>
       Len(tailOf(configId, publishing.docs).rules) >= MIN_RULES
  /\ \A n \in DOMAIN temps : Len(CompiledRules(temps[n])) >= MIN_RULES
  /\ published.kind = "compiled" => Len(CompiledRules(published)) >= MIN_RULES

\* a run left with two rules has just rejected with the too-few-rules error
C11_Witness ==
  /\ Rejected /\ event.settled.err.kind = "TooFewRules"
  /\ event.settled.err.rules = 2 /\ ~event.settled.renamed

\* the rule lines in the body of a file, as a reader finds them
BodyRules(file) == removeComments(normalize(Content(file)))

\* C12: the file at the published path, when it exists (and its data is
\* written), is never shorter than MIN_OUTPUT_LENGTH characters and never
\* holds fewer than MIN_RULES rules.
C12_PublishedNeverDegenerate ==
  (Exists(published) /\ published.full) =>
    /\ Length(Content(published)) >= MIN_OUTPUT_LENGTH
    /\ Len(BodyRules(published)) >= MIN_RULES

(***************************************************************************)
(* The filter stages applied to sequences of rule lines.  A rule line is   *)
(* what the line splitting hands over: trimmed and not empty.              *)
(***************************************************************************)
\* longest sequence of rule lines tried
MaxLines == 3

LineA == <<"a", ".", "c", "o", "m">>
LineB == <<"b", ".", "c", "o", "m">>
LineHash == <<"#", "c", "o", "m", "m", "e", "n", "t">>
LineBang == <<"!", " ", "x">>
LineBracket == <<"[", "A", "]">>
\* a space inside the line
LineSpace == <<"a", " ", "b", ".", "c">>
\* a tab inside the line, as between the two columns of a hosts file
LineTab == <<"a", "\t", "b", ".", "c">>
\* three characters
LineShort == <<"a", ".", "b">>
\* no dot
LineNoDot == <<"a", "b", "c", "d">>

RuleLines ==
  {LineA, LineB, LineHash, LineBang, LineBracket, LineSpace, LineTab,
   LineShort, LineNoDot}

LineSeqs == UNION {[1..n -> RuleLines] : n \in 0..MaxLines}

\* compile.ts 290-321: the three stages in their order
filterChain(rules) == validateRules(deduplicate(removeComments(rules)))

\* every variable but event
others ==
  <<entry, configId, cronValid, pc, published, temps, runs, publishing,
    consecutiveFailures, initialTimer, job, ioFaults, everMax, ticked,
    failedSinceSuccess, ipRequestCounts, uncleaned, now>>

PureInit ==
  /\ Init
  /\ entry = "main" /\ configId = "one" /\ cronValid /\ published = NoFile

\* the filter stages and the guards after them, on one input
ApplyFilter ==
  /\ event.kind = "none"
  /\ \E lines \in LineSeqs :
       event' = [kind |-> "filter", input |-> lines,
                 output |-> filterChain(lines),
                 again |-> filterChain(filterChain(lines)),
                 err |-> compileTail(CfgOne, 1, lines,
                                     CHOOSE ms \in ElapsedChoices : TRUE).err]
  /\ UNCHANGED others

\* pairs of documents answered by the two sources of CfgTwo
DocPairs == {<<a, b>> : a, b \in {"few", "few2", "good"}}

\* a run over two sources, from the end of its fetch loop to the size guard
ApplyCompile ==
  /\ event.kind = "none"
  /\ \E docs \in DocPairs :
       LET tail == compileTail(CfgTwo, 2, allRulesOf(docs),
                               CHOOSE ms \in ElapsedChoices : TRUE)
       IN event' = [kind |-> "compile", docs |-> docs, err |-> tail.err,
                    rules |-> tail.rules]
  /\ UNCHANGED others

\* the validation stage on one line
ApplyValidate ==
  /\ event.kind = "none"
  /\ \E line \in RuleLines :
       event' = [kind |-> "validate", line |-> line,
                 kept |-> validateRules(<<line>>) = <<line>>]
  /\ UNCHANGED others

\* a fetch that arms its timer before it looks at the scheme
fetchStartTimerFirst(url) ==
  IF ~IsPrefix(HttpsPrefix, url)
  THEN [err |-> "InvalidScheme", timer |-> TRUE, request |-> FALSE]
  ELSE [err |-> "", timer |-> TRUE, request |-> TRUE]

\* fetchWithTimeout up to its await: compile.ts 148-164.  timer: the abort
\* timer is armed; request: fetch() has been called.
fetchStart(url) ==
  IF ~IsPrefix(HttpsPrefix, url)
  THEN [err |-> "InvalidScheme", timer |-> FALSE, request |-> FALSE]
  ELSE [err |-> "", timer |-> TRUE, request |-> TRUE]

\* compileBlocklist up to its first await: compile.ts 212-231
firstFetch(cfg) ==
  IF ~validateConfig(cfg)
  THEN [err |-> "InvalidConfig", timer |-> FALSE, request |-> FALSE]
  ELSE IF Len(enabledSources(cfg)) = 0
  THEN [err |-> "NoRulesCollected", timer |-> FALSE, request |-> FALSE]
  ELSE fetchStart(enabledSources(cfg)[1].source)

Urls ==
  {HttpsPrefix \o <<"a">>, HttpPrefix \o <<"a">>,
   <<"f", "t", "p", ":", "/", "/", "a">>, <<>>}

\* a call of the exported fetchWithTimeout
ApplyFetch ==
  /\ event.kind = "none"
  /\ \E url \in Urls :
       event' = [kind |-> "fetch", url |-> url, result |-> fetchStart(url)]
  /\ UNCHANGED others

\* a call of compileBlocklist, up to its first request
ApplyCompileStart ==
  /\ event.kind = "none"
  /\ \E c \in ConfigIds :
       event' = [kind |-> "start", url |-> ConfigOf[c].sources[1].source,
                 result |-> firstFetch(ConfigOf[c])]
  /\ UNCHANGED others

\* fetchWithTimeout after the response headers have arrived: compile.ts
\* 166-173.  The throw, "" when the response is returned to the caller.  A
\* Content-Type header that is absent (null) is the empty text.
responseError(ok, contentType) ==
  LET \* String.prototype.includes(searchString)
      IncludesText(s, sub) ==
        \E i \in 1..(Len(s) - Len(sub) + 1) :
          SubSeq(s, i, i + Len(sub) - 1) = sub
      text == <<"t", "e", "x", "t", "/">>
      application ==
        <<"a", "p", "p", "l", "i", "c", "a", "t", "i", "o", "n", "/">>
  IN IF ~ok THEN "status"
     ELSE IF /\ contentType # <<>>
             /\ ~IncludesText(contentType, text)
             /\ ~IncludesText(contentType, application)
     THEN "contentType"
     ELSE ""

\* a response arrives with a status and a Content-Type header
ApplyResponse ==
  /\ event.kind = "none"
  /\ \E ok \in BOOLEAN :
     \E type \in
          {<<>>,
           <<"t", "e", "x", "t", "/", "p", "l", "a", "i", "n">>,
           <<"t", "e", "x", "t", "/", "h", "t", "m", "l", ";", " ", "c", "h",
             "a", "r", "s", "e", "t", "=", "u", "t", "f", "-", "8">>,
           <<"a", "p", "p", "l", "i", "c", "a", "t", "i", "o", "n", "/", "o",
             "c", "t", "e", "t", "-", "s", "t", "r", "e", "a", "m">>,
           <<"a", "p", "p", "l", "i", "c", "a", "t", "i", "o", "n", "/", "z",
             "i", "p">>,
           <<"i", "m", "a", "g", "e", "/", "p", "n", "g">>} :
       event' = [kind |-> "response", ok |-> ok, contentType |-> type,
                 err |-> responseError(ok, type)]
  /\ UNCHANGED others

\* a run up to the text it hands to secureWriteFile, for configurations with
\* and without the optional properties; each enabled source has answered
\* with one document (the fetch loop of compile.ts 224-280)
ApplyFormat ==
  /\ event.kind = "none"
  /\ \E base \in {CfgOne, CfgTwo} :
     \E h \in {<<>>, HttpsPrefix \o <<"h">>} :
     \E l \in {<<>>, <<"M", "I", "T">>} :
     \E v \in {<<>>, <<"1", ".", "0", ".", "0">>} :
       LET cfg == [base EXCEPT !.homepage = h, !.license = l, !.version = v]
           n == Len(enabledSources(cfg))
       IN \E docs \in [1..n -> {"good", "unicode", "few"}] :
            LET tail == compileTail(cfg, n, allRulesOf(docs),
                                    CHOOSE ms \in ElapsedChoices : TRUE)
            IN event' = [kind |-> "format", config |-> cfg, docs |-> docs,
                         err |-> tail.err, rules |-> tail.rules,
                         text |-> tail.text]
  /\ UNCHANGED others

\* path.resolve(path.normalize(filePath)) on a POSIX system whose working
\* directory is cwd: the segments between slashes, with "" and "." dropped
\* and ".." removing the segment before it
resolve(cwd, filePath) ==
  LET full == IF StartsWith(filePath, "/") THEN filePath
              ELSE cwd \o <<"/">> \o filePath
      cut == Ascending({i \in 1..Len(full) : full[i] = "/"}, 1, Len(full))
             \o <<Len(full) + 1>>
      seg(k) == SubSeq(full, cut[k] + 1, cut[k + 1] - 1)
      RECURSIVE walk(_, _)
      walk(k, stack) ==
        IF k >= Len(cut) THEN stack
        ELSE walk(k + 1,
                  IF seg(k) = <<>> \/ seg(k) = <<".">> THEN stack
                  ELSE IF seg(k) = <<".", ".">>
                  THEN SubSeq(stack, 1, Len(stack) - 1)
                  ELSE Append(stack, seg(k)))
      kept == walk(1, <<>>)
  IN IF kept = <<>> THEN <<"/">>
     ELSE Concat([i \in 1..Len(kept) |-> <<"/">> \o kept[i]])

\* compile.ts 117-127 and index.ts 16-29, with process.cwd() = cwd
securePath(cwd, filePath) ==
  LET resolvedPath == resolve(cwd, filePath)
      cwdPath == resolve(cwd, cwd)
  IN IF ~IsPrefix(cwdPath, resolvedPath)
     THEN [throws |-> TRUE, path |-> <<>>]
     ELSE [throws |-> FALSE, path |-> resolvedPath]

\* a call of securePath in the working directory /app
ApplySecurePath ==
  /\ event.kind = "none"
  /\ \E filePath \in
          {<<"/", "a", "p", "p">>,
           <<"/", "a", "p", "p", "/", "x">>,
           <<"/", "a", "p", "p", "/", "a", "d", "g", "u", "a", "r", "d",
             "-", "b", "l", "o", "c", "k", "l", "i", "s", "t", ".", "t",
             "x", "t">>,
           <<"/", "a", "p", "p", "-", "o", "t", "h", "e", "r", "/", "x">>,
           <<"/", "a", "p", "p", "x">>,
           <<"/", "a", "p", "p", "/", ".", ".", "/", "e", "t", "c", "/",
             "x">>,
           <<"/", "a", "p", "p", "/", ".", "/", "a", "/", ".", ".", "/",
             "b">>,
           <<"x">>,
           <<".", ".", "/", "x">>,
           <<".", ".", "/", "a", "p", "p", "-", "o", "t", "h", "e", "r",
             "/", "x">>,
           <<"/", "e", "t", "c", "/", "x">>,
           <<"/", "a", "p", "p", "/", "a", "/", ".", ".", "/", ".", ".",
             "/", "a", "p", "p", "-", "o", "t", "h", "e", "r">>} :
       LET cwd == <<"/", "a", "p", "p">>
       IN event' = [kind |-> "securePath", cwd |-> cwd,
                    filePath |-> filePath,
                    resolved |-> resolve(cwd, filePath),
                    result |-> securePath(cwd, filePath)]
  /\ UNCHANGED others

\* a call of compileBlocklist, up to its first request, under configurations
\* whose sources carry the property enabled
ApplyEnabled ==
  /\ event.kind = "none"
  /\ \E first, second \in {"absent", "true", "false"} :
       LET flagged(src, flag) ==
             IF flag = "absent" THEN src
             ELSE [name |-> src.name, type |-> src.type,
                   source |-> src.source, enabled |-> flag = "true"]
           cfg == [CfgTwo EXCEPT
                     !.sources = <<flagged(CfgTwo.sources[1], first),
                                   flagged(CfgTwo.sources[2], second)>>]
       IN event' = [kind |-> "enabled", config |-> cfg,
                    flags |-> <<first, second>>,
                    enabledSources |-> enabledSources(cfg),
                    result |-> firstFetch(cfg)]
  /\ UNCHANGED others

\* Date.prototype.toUTCString of a time in milliseconds: a text with a
\* resolution of one second, held as the number of seconds it shows
toUTCString(ms) == ms \div 1000

\* new Date(text) of such a text: the time in milliseconds
parseDate(seconds) == seconds * 1000

\* server.ts 106-130: the status of GET / for a file that exists;
\* ifModifiedSince is the request header, -1 when the request has none
conditionalStatus(ifModifiedSince, mtime) ==
  IF ifModifiedSince # -1 /\ parseDate(ifModifiedSince) >= mtime
  THEN 304 ELSE 200

\* a client gets the artifact, then asks again with the Last-Modified value
\* it received as If-Modified-Since; meanwhile the file is either left alone
\* or replaced by a later publish
ApplyConditionalGet ==
  /\ event.kind = "none"
  /\ \E mtime \in {1000, 1001, 1500, 1999, 2000} :
     \E later \in {0, 1, 500, 1000} :
       LET lastModified == toUTCString(mtime)
       IN event' = [kind |-> "conditional", mtime |-> mtime,
                    replaced |-> later > 0,
                    first |-> conditionalStatus(-1, mtime),
                    lastModified |-> lastModified,
                    second |-> conditionalStatus(lastModified,
                                                 mtime + later)]
  /\ UNCHANGED others

PureNext ==
  \/ ApplyFilter
  \/ ApplyCompile
  \/ ApplyValidate
  \/ ApplyFetch
  \/ ApplyCompileStart
  \/ ApplyResponse
  \/ ApplyFormat
  \/ ApplySecurePath
  \/ ApplyEnabled
  \/ ApplyConditionalGet

PureSpec == PureInit /\ [][PureNext]_vars

\* position of the first occurrence of x in s
FirstIndex(s, x) ==
  CHOOSE i \in 1..Len(s) : s[i] = x /\ \A j \in 1..(i - 1) : s[j] # x

\* C13: the filter output holds no line twice, every line of it is a line of
\* the input, and its lines stand in the order of their first occurrences
\* in the input (the concatenation of the sources in declared order).
C13_FirstOccurrenceOrder ==
  event.kind = "filter" =>
    LET in == event.input
        out == event.output
    IN /\ \A k, l \in 1..Len(out) : k # l => out[k] # out[l]
       /\ \A k \in 1..Len(out) : \E i \in 1..Len(in) : in[i] = out[k]
       /\ \A k, l \in 1..Len(out) :
            k < l => FirstIndex(in, out[k]) < FirstIndex(in, out[l])

\* a.com, b.com, a.com is filtered to a.com, b.com
C13_Witness ==
  /\ event.kind = "filter"
  /\ event.input = <<LineA, LineB, LineA>>
  /\ event.output = <<LineA, LineB>>

\* C14: the filter chain applied to its own output returns that output.
C14_FilterIdempotent == event.kind = "filter" => event.again = event.output

\* an input that every stage shrinks: a comment, a duplicate, an invalid line
C14_Witness ==
  /\ event.kind = "filter"
  /\ event.input = <<LineHash, LineA, LineA>>
  /\ event.output = <<LineA>>
  /\ event.again = <<LineA>>

LineC == <<"c", ".", "c", "o", "m">>

\* C15, as the code has it: the run over the documents (a.com, #comment,
\* b.com) and (a.com, c.com, blank) computes the body a.com, b.com, c.com in
\* that order, and then rejects with the too-few-rules error, three rules
\* being fewer than MIN_RULES: nothing is published.
C15_ExampleBodyThenTooFew ==
  (event.kind = "compile" /\ event.docs = <<"few", "few2">>) =>
    /\ event.rules = <<LineA, LineB, LineC>>
    /\ event.err = "TooFewRules"

\* the run over the two documents of the example has reached its guards
C15_Witness ==
  /\ event.kind = "compile" /\ event.docs = <<"few", "few2">>
  /\ Len(event.rules) = 3

\* C15, as stated: the run over those two documents succeeds with the body
\* a.com, b.com, c.com.
C15_ExampleSucceeds ==
  (event.kind = "compile" /\ event.docs = <<"few", "few2">>) =>
    /\ event.rules = <<LineA, LineB, LineC>>
    /\ event.err = ""

\* C16: the validation stage keeps a line exactly when it contains a '.',
\* contains no white space of any kind (space, tab, carriage return) and is
\* longer than 3 characters.
C16_ValidationRejectsAllWhiteSpace ==
  event.kind = "validate" =>
    (event.kept <=>
       /\ Includes(event.line, ".")
       /\ \A w \in WhiteSpace : ~Includes(event.line, w)
       /\ Len(event.line) > 3)

IsCommentLine(line) == line[1] \in {"#", "!", "["}
IsWellFormed(line) ==
  Includes(line, ".") /\ ~Includes(line, " ") /\ Len(line) > 3

\* C17: a run whose working set becomes empty rejects with the error of the
\* stage that emptied it, and hands nothing to the write: only comment and
\* header lines give the no-rules-after-comment-strip error; lines that are
\* not comments and all fail validation give the no-rules-after-validation
\* error, not the too-few-rules error.
C17_EarliestEmptyStageError ==
  (event.kind = "filter" /\ Len(event.input) > 0) =>
    LET in == event.input
        onlyComments == \A i \in 1..Len(in) : IsCommentLine(in[i])
        noneWellFormed ==
          \A i \in 1..Len(in) : ~IsCommentLine(in[i]) => ~IsWellFormed(in[i])
    IN /\ onlyComments => event.err = "NoRulesAfterComments"
       /\ (~onlyComments /\ noneWellFormed) =>
            event.err = "NoRulesAfterValidation"
       /\ event.output = <<>> => event.err # ""

\* a comment and a line of three characters: emptied by the validation
C17_Witness ==
  /\ event.kind = "filter"
  /\ event.input = <<LineHash, LineShort>>
  /\ event.err = "NoRulesAfterValidation"

\* C18: a fetch of a URL that does not start with https:// fails before the
\* abort timer is armed and before any request is issued, whether
\* fetchWithTimeout is called directly or by the compiler for its first
\* source.
C18_SchemeCheckedFirst ==
  (event.kind \in {"fetch", "start"} /\ ~IsPrefix(HttpsPrefix, event.url)) =>
    /\ event.result.err # ""
    /\ ~event.result.timer
    /\ ~event.result.request

\* fetchWithTimeout has been called with an http:// URL
C18_Witness ==
  /\ event.kind = "fetch"
  /\ event.url = HttpPrefix \o <<"a">>
  /\ event.result.err = "InvalidScheme"

\* The abort timer of the fetch a run is suspended on: armed by
\* fetchWithTimeout (compile.ts 154) and cleared in its finally (line 180)
\* when it returns the response, before response.text() is awaited.
timerArmed(r) == r.phase = "headers"

\* C19: every suspension of a run on the network, for the response headers
\* and for the response body, has the abort timer of its fetch armed.
C19_EverySuspensionTimed == \A r \in BagToSet(runs) : timerArmed(r)

(***************************************************************************)
(* The server started on its own (server.ts 164-169), with what the event  *)
(* loop guarantees: an armed timer fires, and code that is not suspended   *)
(* runs on.  Nothing makes a remote peer answer.                           *)
(***************************************************************************)
ServerInit == Init /\ entry = "server"

\* the abort timer of a pending fetch fires: compile.ts 154-156
FetchTimeout ==
  /\ Idle
  /\ \E r \in BagToSet(runs) :
       /\ r.phase = "headers"
       /\ SourceFails(r, "timeout", "headers")
  /\ UNCHANGED <<limiter, entry, configId, cronValid, published, temps, publishing,
                 initialTimer, job, ioFaults, ticked>>

ServerNext ==
  \/ StartServer
  \/ RunHeaders
  \/ RunBody
  \/ PublishWrite
  \/ PublishRename
  \/ PublishCheck

ServerSpec ==
  /\ ServerInit
  /\ [][ServerNext]_vars
  /\ WF_vars(StartServer)
  /\ WF_vars(FetchTimeout)
  /\ WF_vars(PublishWrite \/ PublishRename \/ PublishCheck)

\* C20: every compile run ends, done or failed: the compilation startServer
\* awaits does not stay pending forever.
C20_EveryRunEnds ==
  (pc = "await_server_compile") ~> (pc # "await_server_compile")


\* C21: a response whose Content-Type is not textual (it does not start with
\* text/: application/octet-stream or another application/* type, for
\* example) is rejected by the fetcher with the content-type error.
C21_BinaryContentTypeRejected ==
  (/\ event.kind = "response" /\ event.ok
   /\ event.contentType # <<>>
   /\ ~IsPrefix(<<"t", "e", "x", "t", "/">>, event.contentType)) =>
    event.err = "contentType"

\* C22: the text a run publishes is a block of lines that start with '!'
\* followed only by the rule lines, one per line, and its last character is
\* a newline.
C22_ArtifactEndsWithNewline ==
  (event.kind = "format" /\ event.err = "") =>
    LET lines == Split(event.text)
        k == Cardinality({i \in 1..Len(lines) : StartsWith(lines[i], "!")})
    IN /\ \A i \in 1..k : StartsWith(lines[i], "!")
       /\ event.text[Len(event.text)] = NL
       /\ SubSeq(lines, k + 1, Len(lines) - 1) = event.rules

\* C23: in the text a run publishes the Rule count value is the number of
\* rule lines of the body, the Source count value is the number of sources
\* fetched in the run, and the header lines are title, timestamp,
\* description, homepage, license, version, source count, rule count,
\* compilation time in that order, an optional one being present exactly
\* when the configuration gives it.
C23_HeaderCountsAndOrder ==
  (event.kind = "format" /\ event.err = "") =>
    LET lines == Split(event.text)
        k == Cardinality({i \in 1..Len(lines) : StartsWith(lines[i], "!")})
        body == SubSeq(lines, k + 1, Len(lines))
        cfg == event.config
        labels == <<TitleLabel, UpdatedLabel, DescriptionLabel,
                    HomepageLabel, LicenseLabel, VersionLabel,
                    SourceCountLabel, RuleCountLabel, CompilationTimeLabel>>
        given == <<TRUE, TRUE, TRUE, cfg.homepage # <<>>,
                   cfg.license # <<>>, cfg.version # <<>>, TRUE, TRUE, TRUE>>
        expected == AtIndices(labels, {i \in 1..Len(labels) : given[i]})
        m == Len(expected)
    IN /\ k = m + 1
       /\ \A i \in 1..m : IsPrefix(expected[i], lines[i])
       /\ lines[k] = <<"!">>
       /\ \A i \in (k + 1)..Len(lines) : ~StartsWith(lines[i], "!")
       /\ lines[m - 2] = SourceCountLabel \o NumberToString(Len(event.docs))
       /\ lines[m - 1] = RuleCountLabel \o NumberToString(Len(body))

\* two sources, a homepage and a version but no license: 101 rules
C23_Witness ==
  /\ event.kind = "format" /\ event.err = ""
  /\ Len(event.docs) = 2 /\ Len(event.rules) = 101
  /\ event.config.homepage # <<>> /\ event.config.license = <<>>
  /\ event.config.version # <<>>

\* C24: securePath returns a path only when the resolved path is the working
\* directory or lies below it, and throws for every other path, a sibling
\* directory whose name begins with the working directory's name included.
C24_OnlyInsideWorkingDirectory ==
  event.kind = "securePath" =>
    LET inside == \/ event.resolved = event.cwd
                  \/ IsPrefix(event.cwd \o <<"/">>, event.resolved)
    IN /\ ~inside => event.result.throws
       /\ ~event.result.throws => (inside /\ event.result.path = event.resolved)

\* C25: a compilation that fails while an artifact exists at the published
\* path does not terminate the process: after the refresh of an outdated
\* artifact at startup has failed, main goes on to start the scheduler and
\* the server.
C25_FailedRefreshKeepsServing ==
  (Rejected /\ Exists(published)) => pc # "exited"

(***************************************************************************)
(* The application (index.ts) with its HTTP server answering requests:     *)
(* server.ts 69-158.  A request is its method, its path, whether it comes  *)
(* from the local host or the internal network (server.ts 136-137),        *)
(* whether its If-Modified-Since is not before the file's mtime, and       *)
(* whether isRateLimited answers true for its client.                      *)
(***************************************************************************)
\* server.ts 11-13
RATE_WINDOW_MS == 60000
MAX_REQUESTS_PER_WINDOW == 30

\* bounds of the model, not of the program: the clock runs through
\* MaxWindows rate windows, and a client stops asking once it has been
\* counted MaxOver times beyond the limit
MaxWindows == 1
MaxOver == 2

\* the instants of the clock: the start, and the last millisecond of each
\* rate window opened at the start and the one after it
Instants ==
  {0} \cup {k * RATE_WINDOW_MS + d : k \in 1..MaxWindows, d \in {0, 1}}

\* a clean-up that also removes the entries whose window ends just now
cleanUpInclusive(t, counts) ==
  [i \in {j \in DOMAIN counts : ~(t >= counts[j].resetTime)} |-> counts[i]]

\* the clean-up loop of isRateLimited: server.ts 35-39
cleanUp(t, counts) ==
  [i \in {j \in DOMAIN counts : ~(t > counts[j].resetTime)} |-> counts[i]]

\* a limiter that rejects from the count MAX_REQUESTS_PER_WINDOW on
isRateLimitedInclusive(ip, t, counts, random) ==
  LET stored == IF ip \in DOMAIN counts
                THEN counts[ip]
                ELSE [count |-> 0, resetTime |-> t + RATE_WINDOW_MS]
      requestData ==
        IF t > stored.resetTime
        THEN [count |-> 1, resetTime |-> t + RATE_WINDOW_MS]
        ELSE [stored EXCEPT !.count = @ + 1]
      set == [i \in DOMAIN counts \cup {ip} |->
                IF i = ip THEN requestData ELSE counts[i]]
  IN [limited |-> requestData.count >= MAX_REQUESTS_PER_WINDOW,
      counts |-> IF random THEN cleanUp(t, set) ELSE set]

\* isRateLimited at the time t, on the map counts: server.ts 19-43.  random
\* is Math.random() < 0.01.  Returns the answer and the map it leaves.
isRateLimited(ip, t, counts, random) ==
  LET stored == IF ip \in DOMAIN counts
                THEN counts[ip]
                ELSE [count |-> 0, resetTime |-> t + RATE_WINDOW_MS]
      requestData ==
        IF t > stored.resetTime
        THEN [count |-> 1, resetTime |-> t + RATE_WINDOW_MS]
        ELSE [stored EXCEPT !.count = @ + 1]
      set == [i \in DOMAIN counts \cup {ip} |->
                IF i = ip THEN requestData ELSE counts[i]]
  IN [limited |-> requestData.count > MAX_REQUESTS_PER_WINDOW,
      counts |-> IF random THEN cleanUp(t, set) ELSE set]

\* the fetch handler: the response, and whether compileBlocklist is called
handleRequest(req, limited, file) ==
  IF limited
  THEN [status |-> 429, body |-> "Too Many Requests", compiles |-> FALSE,
        retryAfter |-> "60"]
  ELSE IF req.method # "GET"
  THEN [status |-> 405, body |-> "Method Not Allowed", compiles |-> FALSE]
  ELSE IF req.pathname \in {"/", "/blocklist.txt"}
  THEN IF ~Exists(file)
       THEN [status |-> 404, body |-> "Blocklist not found",
             compiles |-> FALSE]
       ELSE IF req.notModified
       THEN [status |-> 304, body |-> "", compiles |-> FALSE]
       ELSE [status |-> 200, body |-> "fileContent", compiles |-> FALSE]
  ELSE IF req.pathname = "/health"
  THEN IF req.local
       THEN [status |-> 200, body |-> "{status:ok}", compiles |-> FALSE]
       ELSE [status |-> 404, body |-> "Not Found", compiles |-> FALSE]
  ELSE [status |-> 404, body |-> "Not Found", compiles |-> FALSE]

\* the server answers the request req of the client clientIp (the header
\* x-forwarded-for, or "unknown")
Request(clientIp, req) ==
  /\ pc = "serving" /\ Idle
  /\ isRateLimited(clientIp, now, ipRequestCounts, FALSE)
       .counts[clientIp].count <= MAX_REQUESTS_PER_WINDOW + MaxOver
  /\ \E random \in BOOLEAN :
       LET decision == isRateLimited(clientIp, now, ipRequestCounts, random)
           ghost == isRateLimited(clientIp, now, uncleaned, FALSE)
           response == handleRequest(req, decision.limited, published)
       IN /\ ipRequestCounts' = decision.counts
          /\ uncleaned' = ghost.counts
          /\ event' = [kind |-> "request",
                       failuresBefore |-> consecutiveFailures,
                       maxBefore |-> everMax, called |-> response.compiles,
                       settled |-> None, req |-> req, clientIp |-> clientIp,
                       limited |-> decision.limited,
                       uncleanedLimited |-> ghost.limited,
                       response |-> response]
  /\ UNCHANGED <<entry, configId, cronValid, pc, published, temps, runs,
                 publishing, consecutiveFailures, initialTimer, job,
                 ioFaults, everMax, ticked, failedSinceSuccess, now>>

\* time passes: Date.now() of server.ts 20 has a later value
ClockAdvances ==
  /\ \E t \in Instants : t > now /\ now' = t
  /\ event' = Ev("clock")
  /\ UNCHANGED <<entry, configId, cronValid, pc, published, temps, runs,
                 publishing, consecutiveFailures, initialTimer, job,
                 ioFaults, everMax, ticked, failedSinceSuccess,
                 ipRequestCounts, uncleaned>>

AppInit == Init /\ entry = "main" /\ configId = "one" /\ cronValid

AppNext ==
  \/ MainStart
  \/ FallbackOpen
  \/ FallbackWrite
  \/ StartScheduler
  \/ Tick
  \/ StartServer
  \/ RunHeaders
  \/ RunBody
  \/ PublishWrite
  \/ PublishRename
  \/ PublishCheck
  \/ \E req \in
       {[method |-> "GET", pathname |-> "/", local |-> FALSE,
         notModified |-> FALSE],
        [method |-> "GET", pathname |-> "/blocklist.txt", local |-> TRUE,
         notModified |-> TRUE],
        [method |-> "GET", pathname |-> "/health", local |-> TRUE,
         notModified |-> FALSE],
        [method |-> "GET", pathname |-> "/health", local |-> FALSE,
         notModified |-> FALSE],
        [method |-> "GET", pathname |-> "/stats", local |-> TRUE,
         notModified |-> FALSE],
        [method |-> "POST", pathname |-> "/refresh", local |-> TRUE,
         notModified |-> FALSE]} :
       Request("unknown", req)

AppSpec == AppInit /\ [][AppNext]_vars

\* C26: a POST request to /refresh from a client that is not rate-limited
\* starts a compilation.
C26_PostRefreshCompiles ==
  (/\ event.kind = "request" /\ ~event.limited
   /\ event.req.method = "POST" /\ event.req.pathname = "/refresh") =>
    event.called

\* C27: the health check answers ok only when the artifact file exists and
\* the most recent compilation of the scheduler, if there was one, did not
\* fail.
C27_HealthyOnlyAfterSuccess ==
  (/\ event.kind = "request" /\ event.req.pathname = "/health"
   /\ event.response.status = 200) =>
    (Exists(published) /\ consecutiveFailures = 0)

\* C28: the stages of a run happen in the order validation, fetching,
\* filtering, formatting, publishing, done.  No source is requested under a
\* configuration that fails validation; a run writes (a temporary file or
\* the published path) only after every source was fetched and every filter
\* and size guard passed; a run that fails in a stage has entered no later
\* stage, and a run that is done has been through all of them.
C28_StagesInOrder ==
  LET n == Len(SourcesOf[configId])
      all == [k \in 1..n |-> k]
      valid ==
        /\ n >= 1
        /\ \A i \in 1..Len(config.sources) :
             IsPrefix(HttpsPrefix, config.sources[i].source)
      passed(docs) == Len(docs) = n /\ tailOf(configId, docs).err = ""
  IN /\ (runs # EmptyBag \/ publishing # None) => valid
     /\ publishing # None =>
          passed(publishing.docs) /\ publishing.requested = all
     /\ \A name \in DOMAIN temps : passed(temps[name].docs)
     /\ published.kind = "compiled" => passed(published.docs)
     /\ event.settled # None =>
          LET s == event.settled
          IN /\ s.ok => (s.requested = all /\ s.renamed)
             /\ s.err.kind \in {"InvalidConfig", "NoRulesCollected"} =>
                  (s.requested \in {<<>>, all} /\ ~s.renamed)
             /\ s.err.kind = "source" =>
                  (s.requested = [k \in 1..s.err.pos |-> k] /\ ~s.renamed)
             /\ s.err.kind \in {"NoRulesAfterComments",
                                "NoRulesAfterValidation", "TooFewRules",
                                "OutputTooSmall", "WriteFailure"} =>
                  (s.requested = all /\ ~s.renamed)
             /\ s.err.kind \in {"NotCreated", "SizeMismatch"} =>
                  (s.requested = all /\ s.renamed /\ ~s.ok)

\* a run over two sources is done: both were requested, then the file was
\* renamed onto the published path
C28_Witness ==
  /\ event.settled # None /\ event.settled.ok
  /\ event.settled.requested = <<1, 2>> /\ event.settled.renamed

\* C29: a configuration with a source that carries enabled = false is
\* accepted, and the run goes over the other sources in declared order (the
\* first request is for the first of them); a source without the property
\* counts as enabled.
C29_DisabledSourceSkipped ==
  (event.kind = "enabled" /\ "false" \in {event.flags[1], event.flags[2]}) =>
    LET sources == event.config.sources
        kept == AtIndices(sources,
                          {i \in 1..Len(sources) : event.flags[i] # "false"})
    IN /\ event.result.err # "InvalidConfig"
       /\ event.enabledSources = kept
       /\ kept # <<>> => (event.result.err = "" /\ event.result.request)

C34_CounterWithinMaxFailures ==
  0 <= consecutiveFailures /\ consecutiveFailures <= MAX_FAILURES

\* C35: when a run resolves, the file at the published path is the complete
\* file the run wrote, and a run whose rename onto the published path has
\* happened resolves, whatever characters its rules contain.
C35_RenamedRunResolves ==
  event.settled # None =>
    /\ event.settled.ok =>
         (published.kind = "compiled" /\ published.full
          /\ Len(published.docs) = Len(SourcesOf[configId]))
    /\ event.settled.renamed => event.settled.ok

(***************************************************************************)
(* The scheduler started on its own (part_004 182-190) with one source,    *)
(* cron ticks that keep firing, a network that answers and code that runs  *)
(* on when it is not suspended.                                            *)
(***************************************************************************)
CronInit == Init /\ entry = "cron" /\ configId = "one" /\ cronValid

CronNext ==
  \/ StartScheduler
  \/ InitialCompile
  \/ Tick
  \/ RunHeaders
  \/ RunBody
  \/ PublishWrite
  \/ PublishRename
  \/ PublishCheck

CronSpec ==
  /\ CronInit
  /\ [][CronNext]_vars
  /\ WF_vars(StartScheduler)
  /\ WF_vars(InitialCompile)
  /\ WF_vars(Tick)
  /\ WF_vars(RunHeaders)
  /\ WF_vars(RunBody)
  /\ WF_vars(PublishWrite \/ PublishRename \/ PublishCheck)

\* C31: after a scheduler compilation has failed, with consecutiveFailures
\* between 1 and MAX_FAILURES - 1 and ticks that keep firing, some later
\* tick calls compileBlocklist again.
C31_RetryAfterFailure ==
  (consecutiveFailures >= 1 /\ consecutiveFailures < MAX_FAILURES)
    ~> (event.kind = "tick" /\ event.called)

\* Whether every body line of a text (the lines after its leading block of
\* '!' lines, as a reader of the file finds them) is non-empty, has no white
\* space at either end, does not begin with '#', '!' or '[', contains a '.',
\* contains no space, is longer than 3 characters and occurs once.
WellFormedBody(text) ==
  LET lines == IF text = <<>> THEN <<>> ELSE Split(text)
      k == Cardinality({i \in 1..Len(lines) :
                          \A j \in 1..i : StartsWith(lines[j], "!")})
      body == SubSeq(lines, k + 1, Len(lines))
  IN /\ \A i \in 1..Len(body) :
          /\ Len(body[i]) > 3
          /\ body[i][1] \notin WhiteSpace \cup {"#", "!", "["}
          /\ body[i][Len(body[i])] \notin WhiteSpace
          /\ Includes(body[i], ".")
          /\ ~Includes(body[i], " ")
     /\ Cardinality({body[i] : i \in 1..Len(body)}) = Len(body)

\* WellFormedBody of every text that can stand at the published path
ArtifactBodyOk ==
  [compiled |->
     [c \in ValidConfigIds |->
        [i \in 1..Power(Len(DocList), Len(SourcesOf[c])) |->
           TailTable[c][i].err = "" => WellFormedBody(TailTable[c][i].text)]],
   old |-> WellFormedBody(OldText),
   fallback |-> WellFormedBody(FallbackText)]

\* C33: in every artifact at the published path every body line is
\* non-empty, trimmed, not a comment or header line, contains a '.' and no
\* space, is longer than 3 characters and differs from every other body
\* line.
C33_BodyLinesWellFormed ==
  (Exists(published) /\ published.full) =>
    CASE published.kind = "compiled" ->
           ArtifactBodyOk.compiled[configId][DocsIndex(published.docs)]
      [] published.kind = "old" -> ArtifactBodyOk.old
      [] published.kind = "fallback" -> ArtifactBodyOk.fallback

\* an artifact compiled from two sources that share 99 rules is published
C33_Witness ==
  /\ published.kind = "compiled" /\ published.full
  /\ published.docs = <<"good", "unicode">>
  /\ Len(CompiledRules(published)) = 101

\* C36: once a file exists at the published path a file exists there in
\* every later state; a server that answers requests has a file there, and
\* GET / and GET /blocklist.txt are never answered 404.
C36_ArtifactNeverDisappears ==
  /\ [][Exists(published) => Exists(published')]_vars
  /\ [](pc = "serving" => Exists(published))
  /\ []((/\ event.kind = "request" /\ ~event.limited
         /\ event.req.method = "GET"
         /\ event.req.pathname \in {"/", "/blocklist.txt"}) =>
          event.response.status # 404)

\* GET / is answered 200 after a scheduled compilation has replaced the
\* artifact the application started with
C36_Witness ==
  /\ event.kind = "request" /\ event.req.pathname = "/"
  /\ event.response.status = 200
  /\ published.kind = "compiled"

\* C37: a client that sends back the Last-Modified value it received as
\* If-Modified-Since gets 304 as long as the file has not been replaced, for
\* every modification time of the file, and 200 once a later publish has
\* replaced it.
C37_ConditionalGetRoundTrip ==
  event.kind = "conditional" =>
    /\ event.first = 200
    /\ ~event.replaced => event.second = 304
    /\ event.replaced => event.second = 200

(***************************************************************************)
(* The server of server.ts with its rate limiter, two clients and the      *)
(* clock: the file exists when the server starts.                          *)
(***************************************************************************)
RateInit ==
  Init /\ entry = "server" /\ configId = "one" /\ cronValid
       /\ published = OldFile

RateNext ==
  \/ StartServer
  \/ \E clientIp \in {"unknown", "203.0.113.7"} :
     \E req \in
       {[method |-> "GET", pathname |-> "/", local |-> FALSE,
         notModified |-> FALSE],
        [method |-> "POST", pathname |-> "/refresh", local |-> TRUE,
         notModified |-> FALSE]} :
       Request(clientIp, req)
  \/ ClockAdvances

RateSpec == RateInit /\ [][RateNext]_vars

\* C32: for each client, within one rate window (from its first counted
\* request until resetTime, RATE_WINDOW_MS later, that instant included) the
\* first MAX_REQUESTS_PER_WINDOW requests are admitted and every further one
\* is answered 429 with Retry-After 60 whatever its method or path; the first
\* request after the window has expired is admitted and opens a window with
\* count 1.
C32_RateWindow ==
  /\ [][event'.kind = "request" =>
         LET ip == event'.clientIp
             open == /\ ip \in DOMAIN ipRequestCounts
                     /\ now <= ipRequestCounts[ip].resetTime
         IN IF open
            THEN /\ event'.limited <=>
                      ipRequestCounts[ip].count >= MAX_REQUESTS_PER_WINDOW
                 /\ ipRequestCounts'[ip] =
                      [count |-> ipRequestCounts[ip].count + 1,
                       resetTime |-> ipRequestCounts[ip].resetTime]
            ELSE /\ ~event'.limited
                 /\ ipRequestCounts'[ip] =
                      [count |-> 1, resetTime |-> now + RATE_WINDOW_MS]]_vars
  /\ [](event.kind = "request" =>
         IF event.limited
         THEN /\ event.response.status = 429
              /\ event.response.retryAfter = "60"
         ELSE event.response.status # 429)

\* the 32nd request of a window, a POST, at the last instant of the window
C32_Witness ==
  /\ event.kind = "request" /\ event.limited
  /\ event.req.method = "POST"
  /\ ipRequestCounts[event.clientIp].count = MAX_REQUESTS_PER_WINDOW + 2
  /\ now = ipRequestCounts[event.clientIp].resetTime

\* C38: the random clean-up of isRateLimited changes no decision: every
\* request gets the answer it would get had the clean-up never run; and the
\* clean-up never removes the entry of a client whose window has not expired.
C38_CleanupChangesNothing ==
  /\ [](event.kind = "request" => event.limited = event.uncleanedLimited)
  /\ [][\A ip \in DOMAIN ipRequestCounts :
          ip \notin DOMAIN ipRequestCounts' =>
            now > ipRequestCounts[ip].resetTime]_vars

\* a client is answered 429 after the clean-up has removed the expired entry
\* of the other client
C38_Witness ==
  /\ event.kind = "request" /\ event.limited
  /\ DOMAIN ipRequestCounts # DOMAIN uncleaned

====
